---- MODULE Spec2Model ----
(***************************************************************************)
(* exxos-kult-extract: src/src/main.rs as a state machine.                 *)
(*                                                                         *)
(* One run of main over its file arguments.  A byte is an integer 0..255,  *)
(* a byte buffer is a sequence of bytes (index i of the code is index i+1  *)
(* here).  A pixel buffer holds one RGBA quadruple per pixel: the code's   *)
(* frame[4*(y*width + x) + c] is Frame[y*width + x + 1][c + 1].            *)
(*                                                                         *)
(* The collaborators outside src/ (the file system, the png encoder) are   *)
(* taken to succeed: out is the list of rasters handed to                  *)
(* write_rgba_to_png for the current argument, and the scaled raster that  *)
(* write_rgba_to_png builds from one of them is write_rgba_to_png(..)      *)
(* below, exercised on its own under SpecUpscale.                          *)
(***************************************************************************)
EXTENDS Integers, Sequences, FiniteSets, TLC

VARIABLES
    argi,   \* main: how many arguments the `for filename` loop has taken
    pc,     \* "main" | "dispatch" | "loop" | "exit" | "panic" | "call" | "returned"
    file,   \* main: src, the whole content of the current file
    rest,   \* extract_sprites_ega: src, the slice that remains to be parsed
    n,      \* extract_sprites_ega: n, the frame counter
    out,    \* the write_rgba_to_png calls made for the current argument
    diag,   \* the lines printed for the current argument
    path,   \* which extract_* function main called for the current argument
    fault,  \* where the run panicked: "none" | "header" | "body" | "advance" | "planar"
    call,   \* the arguments of the function under SpecInterleaved / SpecUpscale
    ret     \* its result

vars == <<argi, pc, file, rest, n, out, diag, path, fault, call, ret>>

----------------------------------------------------------------------------
(* Bounds of the model *)

NumArgs == 2
MaxRecords == 2
LongCount == 101
MaxSpan == 2
MaxRows == 2
MaxW == 2
MaxH == 2

----------------------------------------------------------------------------
(* Program constants *)

PLANE_SIZE == 8000
FULLSCREEN_LEN == 32000
FULLSCREEN_WIDTH == 320
FULLSCREEN_HEIGHT == 200
SCALE_FACTOR_WIDTH == 5
SCALE_FACTOR_HEIGHT == 6

\* EGA_PAL with entry 8 left transparent like entry 0.
EGA_PAL_Index8Transparent ==
    << <<0, 0, 0, 0>>, <<0, 0, 196, 255>>, <<0, 196, 0, 255>>, <<0, 196, 196, 255>>,
       <<196, 0, 0, 255>>, <<196, 0, 196, 255>>, <<196, 126, 0, 255>>, <<196, 196, 196, 255>>,
       <<0, 0, 0, 0>>, <<78, 78, 220, 255>>, <<78, 220, 78, 255>>, <<78, 243, 243, 255>>,
       <<220, 78, 78, 255>>, <<243, 78, 243, 255>>, <<243, 243, 78, 255>>,
       <<255, 255, 255, 255>> >>

EGA_PAL ==
    << <<0, 0, 0, 0>>,          \*  0
       <<0, 0, 196, 255>>,      \*  1
       <<0, 196, 0, 255>>,      \*  2
       <<0, 196, 196, 255>>,    \*  3
       <<196, 0, 0, 255>>,      \*  4
       <<196, 0, 196, 255>>,    \*  5
       <<196, 126, 0, 255>>,    \*  6
       <<196, 196, 196, 255>>,  \*  7
       <<0, 0, 0, 255>>,        \*  8
       <<78, 78, 220, 255>>,    \*  9
       <<78, 220, 78, 255>>,    \* 10
       <<78, 243, 243, 255>>,   \* 11
       <<220, 78, 78, 255>>,    \* 12
       <<243, 78, 243, 255>>,   \* 13
       <<243, 243, 78, 255>>,   \* 14
       <<255, 255, 255, 255>> >> \* 15

TooSmall == "Not a valid sprite sheet, file too small."
SizeIncorrect == "Not a valid sprite sheet, size in header incorrect."
Extracting == "Extracting"

----------------------------------------------------------------------------
(* Byte arithmetic *)

\* (b >> k) & 1
Bit(b, k) == (b \div (2 ^ k)) % 2

\* The size field read little-endian.
u32_from_be_bytes_LittleEndian(b) == ((b[4] * 256 + b[3]) * 256 + b[2]) * 256 + b[1]

\* u32::from_be_bytes(src[0..4])
u32_from_be_bytes(b) == ((b[1] * 256 + b[2]) * 256 + b[3]) * 256 + b[4]

\* u16::from_le_bytes(src[0..2])
u16_from_le_bytes(b) == b[1] + 256 * b[2]

\* The elements f[1], ..., f[Len(f)] as a sequence value (a Vec, a slice).
Vec(f) == SubSeq(f, 1, Len(f))

----------------------------------------------------------------------------
(* The decoders.  Each returns [ok, frame]: ok is FALSE when a slice index *)
(* of the code is out of range, which panics.                              *)

Panicked == [ok |-> FALSE, frame |-> <<>>]

\* The planes' bytes read least significant bit first.
PlanarIndex_LsbFirst(src, width, x, y) ==
    LET ofs == width * y + x
        bitofs == x % 8
        p0 == Bit(src[0 * PLANE_SIZE + (ofs \div 8) + 1], bitofs)
        p1 == Bit(src[1 * PLANE_SIZE + (ofs \div 8) + 1], bitofs)
        p2 == Bit(src[2 * PLANE_SIZE + (ofs \div 8) + 1], bitofs)
        p3 == Bit(src[3 * PLANE_SIZE + (ofs \div 8) + 1], bitofs)
    IN  p3 * 8 + p2 * 4 + p1 * 2 + p0

\* The palette index of pixel (x, y) of the planar source.
PlanarIndex(src, width, x, y) ==
    LET ofs == width * y + x
        bitofs == 7 - (x % 8)
        p0 == Bit(src[0 * PLANE_SIZE + (ofs \div 8) + 1], bitofs)
        p1 == Bit(src[1 * PLANE_SIZE + (ofs \div 8) + 1], bitofs)
        p2 == Bit(src[2 * PLANE_SIZE + (ofs \div 8) + 1], bitofs)
        p3 == Bit(src[3 * PLANE_SIZE + (ofs \div 8) + 1], bitofs)
    IN  p3 * 8 + p2 * 4 + p1 * 2 + p0

\* The largest index read is that of plane 3 at the last pixel.
decode_planar_ega_to_rgba(src, width, height) ==
    IF width * height > 0 /\ 3 * PLANE_SIZE + ((width * height - 1) \div 8) >= Len(src)
    THEN Panicked
    ELSE [ok |-> TRUE,
          frame |-> Vec([p \in 1..(width * height) |->
                       EGA_PAL[PlanarIndex(src, width, (p - 1) % width, (p - 1) \div width) + 1]])]

\* The nibbles taken low first.
InterleavedIndex_LowFirst(src, span, x, y) ==
    LET ofs == y * span + (x \div 2)
        b == src[ofs + 1]
    IN  IF x % 2 = 0 THEN b % 16 ELSE b \div 16

\* The palette index of pixel (x, y) of the interleaved source.
InterleavedIndex(src, span, x, y) ==
    LET ofs == y * span + (x \div 2)
        b == src[ofs + 1]
    IN  IF x % 2 = 0 THEN b \div 16 ELSE b % 16

decode_interleaved_ega_to_rgba(src, span, height) ==
    LET width == 2 * span
    IN  IF \E y \in 0..(height - 1), x \in 0..(width - 1) : y * span + (x \div 2) >= Len(src)
        THEN Panicked
        ELSE [ok |-> TRUE,
              frame |-> Vec([p \in 1..(width * height) |->
                           EGA_PAL[InterleavedIndex(src, span, (p - 1) % width, (p - 1) \div width) + 1]])]

----------------------------------------------------------------------------
(* write_rgba_to_png: the raster given to the encoder.  The four nested    *)
(* loops (y, dy, x, dx) make scaled_width * scaled_height writes into a    *)
(* zeroed buffer; write number k (from 1, in loop order) is decomposed     *)
(* into its loop counters, and the buffer is the zeros overwritten by the  *)
(* writes, the last write to an offset winning.                            *)

ZeroPixel == <<0, 0, 0, 0>>

\* Loop counters of write k: y outermost, then dy, then x, then dx.
ScaleWrite(k, width) ==
    LET dx == (k - 1) % SCALE_FACTOR_WIDTH
        x == ((k - 1) \div SCALE_FACTOR_WIDTH) % width
        dy == ((k - 1) \div (SCALE_FACTOR_WIDTH * width)) % SCALE_FACTOR_HEIGHT
        y == (k - 1) \div (SCALE_FACTOR_WIDTH * width * SCALE_FACTOR_HEIGHT)
    IN  [x |-> x, y |-> y, dx |-> dx, dy |-> dy]

\* let ofs = y * width + x
ScaleSourceOfs(w, width) == w.y * width + w.x

\* The scaled row computed with the horizontal factor.
ScaleTargetOfs_WidthFactor(w, scaled_width) ==
    LET sy == SCALE_FACTOR_WIDTH * w.y + w.dy
        sx == SCALE_FACTOR_WIDTH * w.x + w.dx
    IN  sy * scaled_width + sx

\* let scaled_ofs = sy * scaled_width + sx
ScaleTargetOfs(w, scaled_width) ==
    LET sy == SCALE_FACTOR_HEIGHT * w.y + w.dy
        sx == SCALE_FACTOR_WIDTH * w.x + w.dx
    IN  sy * scaled_width + sx

\* The number of passes of the innermost loop body.
ScaleWrites(width, height) == height * SCALE_FACTOR_HEIGHT * width * SCALE_FACTOR_WIDTH

\* scaled_ofs of each write, in loop order.
ScaleTargets(width, height) ==
    Vec([k \in 1..ScaleWrites(width, height) |->
           ScaleTargetOfs(ScaleWrite(k, width), SCALE_FACTOR_WIDTH * width)])

\* ofs of each write, in loop order.
ScaleSources(width, height) ==
    Vec([k \in 1..ScaleWrites(width, height) |-> ScaleSourceOfs(ScaleWrite(k, width), width)])

\* Returns [ok, width, height, data], what the encoder is given: ok is FALSE
\* when an index into data or scaled_data is out of range, which panics.
write_rgba_to_png(data, width, height) ==
    LET scaled_width == SCALE_FACTOR_WIDTH * width
        scaled_height == SCALE_FACTOR_HEIGHT * height
        scaled_size == 5 * width * 6 * height
        source == ScaleSources(width, height)
        target == ScaleTargets(width, height)
        last(q) == LET ks == {k \in 1..Len(target) : target[k] = q - 1}
                   IN  IF ks = {} THEN 0 ELSE CHOOSE k \in ks : \A j \in ks : j <= k
    IN  IF \E k \in 1..Len(target) : source[k] >= Len(data) \/ target[k] >= scaled_size
        THEN [ok |-> FALSE, width |-> scaled_width, height |-> scaled_height, data |-> <<>>]
        ELSE [ok |-> TRUE, width |-> scaled_width, height |-> scaled_height,
              data |-> Vec([q \in 1..scaled_size |->
                          IF last(q) = 0 THEN ZeroPixel ELSE data[source[last(q)] + 1]])]

----------------------------------------------------------------------------
(* Output names: png/<stem>.png and png/<stem>-<n:02>.png.  A name is the  *)
(* argument it derives from and the characters of the frame index.         *)

RECURSIVE Decimal(_)
Decimal(k) == IF k < 10 THEN <<k>> ELSE Append(Decimal(k \div 10), k % 10)

\* The index printed without padding.
Format02_NoPad(k) == Decimal(k)

\* format!("{:02}", n)
Format02(k) ==
    LET d == Decimal(k)
    IN  IF Len(d) < 2 THEN <<0>> \o d ELSE d

FullscreenFilename(stem) == [stem |-> stem, index |-> <<>>]
SpriteFilename(stem, k) == [stem |-> stem, index |-> Format02(k)]

Raster(filename, data, width, height) ==
    [filename |-> filename, data |-> data, width |-> width, height |-> height,
     scaled_width |-> SCALE_FACTOR_WIDTH * width,
     scaled_height |-> SCALE_FACTOR_HEIGHT * height]

----------------------------------------------------------------------------
(* The input files of the model.                                           *)

RECURSIVE Concat(_)
Concat(ss) == IF ss = <<>> THEN <<>> ELSE Head(ss) \o Concat(Tail(ss))

Repeat(s, k) == Concat(Vec([i \in 1..k |-> s]))

\* A sprite-sheet container: the payload behind its big-endian size.
Sheet(payload) ==
    LET size == Len(payload)
    IN  <<(size \div 16777216) % 256, (size \div 65536) % 256,
          (size \div 256) % 256, size % 256>> \o payload

\* One frame record: the four header bytes and the body.
Record(record_size, half_byte_width, height, body) ==
    <<record_size % 256, record_size \div 256, half_byte_width, height>> \o body

\* The records the containers are built from: complete ones (record_size =
\* 4 + byte_width * height) of several sizes, one padded behind its body, and
\* malformed ones: record_size 0, record_size short of the body, record_size
\* beyond the record, a body a byte short, a body missing, a cut header.
Records ==
    { Record(4, 0, 0, <<>>),
      Record(6, 1, 1, <<165, 15>>),
      Record(8, 1, 2, <<60, 128, 9, 240>>),
      Record(8, 1, 1, <<165, 15, 0, 0>>),
      Record(0, 1, 1, <<165, 15>>),
      Record(4, 1, 1, <<165, 15>>),
      Record(7, 1, 1, <<165, 15>>),
      Record(6, 1, 1, <<165>>),
      Record(4, 1, 1, <<>>),
      <<6, 0, 1>>,
      <<6>> }

RecordLists == UNION { [1..k -> Records] : k \in 0..MaxRecords }

Sheets == { Sheet(Concat(rs)) : rs \in RecordLists }

\* LongCount complete records, to take the frame counter past 99.
LongSheet == Sheet(Repeat(Record(6, 1, 1, <<165, 15>>), LongCount))

\* One complete 4 x 128 record of 260 bytes: both size fields need two bytes.
WideSheet == Sheet(Record(260, 1, 128, Vec([i \in 1..256 |-> (7 * i) % 256])))

\* Files the sprite-sheet validation rejects.
Rejected ==
    { <<>>, <<0>>, <<0, 0, 0>>, <<0, 0, 0, 5, 1, 2, 3>>, <<0, 0, 0, 0, 4, 0, 0, 0>>,
      <<6, 0, 0, 0, 6, 0, 1, 1, 165, 15>>,
      Vec([i \in 1..(FULLSCREEN_LEN - 1) |-> 0]), Vec([i \in 1..(FULLSCREEN_LEN + 1) |-> 0]) }

FullZero == Vec([i \in 1..FULLSCREEN_LEN |-> 0])
FullOnes == Vec([i \in 1..FULLSCREEN_LEN |-> 255])
FullMixed == Vec([i \in 1..FULLSCREEN_LEN |-> (((i - 1) \div PLANE_SIZE) * 37 + (i - 1) * 11) % 256])

Files == Sheets \cup {LongSheet, WideSheet} \cup Rejected \cup {FullZero, FullOnes, FullMixed}

----------------------------------------------------------------------------
(* main and extract_*                                                      *)

NoCall == [data |-> <<>>, a |-> 0, b |-> 0]
NoRet == [ok |-> TRUE, width |-> 0, height |-> 0, data |-> <<>>]

Init ==
    /\ argi = 0
    /\ pc = "main"
    /\ file = <<>>
    /\ rest = <<>>
    /\ n = 0
    /\ out = <<>>
    /\ diag = <<>>
    /\ path = "none"
    /\ fault = "none"
    /\ call = NoCall
    /\ ret = NoRet

\* The size test as a lower bound.
Dispatch_AtLeast(src) == IF Len(src) >= FULLSCREEN_LEN THEN "fullscreen" ELSE "sprites"

\* if src.len() == 32000 { extract_fullscreen_ega } else { extract_sprites_ega }
Dispatch(src) == IF Len(src) = FULLSCREEN_LEN THEN "fullscreen" ELSE "sprites"

\* The sprite-sheet validation: the diagnostic it prints, or "ok".
Validate(src) ==
    IF Len(src) < 4 THEN TooSmall
    ELSE IF u32_from_be_bytes(SubSeq(src, 1, 4)) + 4 # Len(src) THEN SizeIncorrect
    ELSE "ok"

\* src = &src[input_size..]
Advance(src, input_size) == SubSeq(src, input_size + 1, Len(src))

\* A loop that still runs has passed at most one header per payload byte
\* unless it has stopped advancing; the model follows it that far.
MaxFrames(src) == Len(src) - 3

\* for filename in args().skip(1): print, read the file.
MainNextFile ==
    /\ pc = "main"
    /\ argi < NumArgs
    /\ \E f \in Files : file' = f
    /\ argi' = argi + 1
    /\ pc' = "dispatch"
    /\ rest' = <<>>
    /\ n' = 0
    /\ out' = <<>>
    /\ diag' = <<Extracting>>
    /\ path' = "none"
    /\ UNCHANGED <<fault, call, ret>>

\* The arguments are exhausted: main returns Ok(()).
MainExit ==
    /\ pc = "main"
    /\ argi = NumArgs
    /\ pc' = "exit"
    /\ UNCHANGED <<argi, file, rest, n, out, diag, path, fault, call, ret>>

ExtractFullscreen ==
    /\ pc = "dispatch"
    /\ Dispatch(file) = "fullscreen"
    /\ path' = "fullscreen"
    /\ LET width == FULLSCREEN_WIDTH
           height == FULLSCREEN_HEIGHT
       IN  \E frame_rgb \in {decode_planar_ega_to_rgba(file, width, height)} :
             IF frame_rgb.ok
             THEN /\ out' = <<Raster(FullscreenFilename(argi), frame_rgb.frame, width, height)>>
                  /\ pc' = "main"
                  /\ fault' = fault
             ELSE /\ out' = out
                  /\ pc' = "panic"
                  /\ fault' = "planar"
    /\ UNCHANGED <<argi, file, rest, n, diag, call, ret>>

\* extract_sprites_ega up to its loop.
ExtractSpritesEnter ==
    /\ pc = "dispatch"
    /\ Dispatch(file) = "sprites"
    /\ path' = "sprites"
    /\ IF Validate(file) = "ok"
       THEN /\ rest' = SubSeq(file, 5, Len(file))
            /\ pc' = "loop"
            /\ diag' = diag
       ELSE /\ rest' = rest
            /\ pc' = "main"
            /\ diag' = Append(diag, Validate(file))
    /\ n' = 0
    /\ UNCHANGED <<argi, file, out, fault, call, ret>>

\* One pass of `while !src.is_empty()`.
SpriteLoopStep ==
    /\ pc = "loop"
    /\ rest # <<>>
    /\ n < MaxFrames(file)
    /\ IF Len(rest) < 4
       THEN /\ pc' = "panic"
            /\ fault' = "header"
            /\ UNCHANGED <<rest, n, out>>
       ELSE LET input_size == u16_from_le_bytes(SubSeq(rest, 1, 2))
                byte_width == 2 * rest[3]
                height == rest[4]
                width == 2 * byte_width
                frame_rgb == decode_interleaved_ega_to_rgba(SubSeq(rest, 5, Len(rest)),
                                                            byte_width, height)
            IN  IF ~frame_rgb.ok
                THEN /\ pc' = "panic"
                     /\ fault' = "body"
                     /\ UNCHANGED <<rest, n, out>>
                ELSE /\ out' = Append(out, Raster(SpriteFilename(argi, n), frame_rgb.frame,
                                                  width, height))
                     /\ n' = n + 1
                     /\ IF input_size > Len(rest)
                        THEN /\ pc' = "panic"
                             /\ fault' = "advance"
                             /\ rest' = rest
                        ELSE /\ pc' = "loop"
                             /\ fault' = fault
                             /\ rest' = Advance(rest, input_size)
    /\ UNCHANGED <<argi, file, diag, path, call, ret>>

\* The loop ends: extract_sprites_ega returns Ok(()).
SpriteLoopExit ==
    /\ pc = "loop"
    /\ rest = <<>>
    /\ pc' = "main"
    /\ UNCHANGED <<argi, file, rest, n, out, diag, path, fault, call, ret>>

Next ==
    \/ MainNextFile
    \/ MainExit
    \/ ExtractFullscreen
    \/ ExtractSpritesEnter
    \/ SpriteLoopStep
    \/ SpriteLoopExit

Spec == Init /\ [][Next]_vars

----------------------------------------------------------------------------
(* decode_interleaved_ega_to_rgba on its own: every span and height up to  *)
(* the bounds, on every slice of sample bytes up to one byte longer than   *)
(* the largest frame.                                                      *)

SampleBytes == {165, 15}

SourceSlices == UNION { [1..k -> SampleBytes] : k \in 0..(MaxSpan * MaxRows + 1) }

InitInterleaved ==
    /\ argi = 0
    /\ pc = "call"
    /\ file = <<>>
    /\ rest = <<>>
    /\ n = 0
    /\ out = <<>>
    /\ diag = <<>>
    /\ path = "none"
    /\ fault = "none"
    /\ \E span \in 0..MaxSpan, height \in 0..MaxRows, src \in SourceSlices :
         call = [data |-> src, a |-> span, b |-> height]
    /\ ret = Panicked

DecodeInterleaved ==
    /\ pc = "call"
    /\ ret' = decode_interleaved_ega_to_rgba(call.data, call.a, call.b)
    /\ pc' = "returned"
    /\ UNCHANGED <<argi, file, rest, n, out, diag, path, fault, call>>

NextInterleaved == DecodeInterleaved

SpecInterleaved == InitInterleaved /\ [][NextInterleaved]_vars

----------------------------------------------------------------------------
(* write_rgba_to_png on its own: every width and height up to the bounds,  *)
(* on patterned pixel buffers of the exact size, one pixel short and one   *)
(* pixel long.                                                             *)

SamplePixels == << <<1, 2, 3, 4>>, <<196, 126, 0, 255>>, <<0, 0, 0, 0>> >>

PatternBuffer(len, stride, first) ==
    Vec([p \in 1..len |-> SamplePixels[((stride * (p - 1) + first) % 3) + 1]])

PixelBuffers(pixels) ==
    { PatternBuffer(len, stride, first) :
        len \in {l \in {pixels - 1, pixels, pixels + 1} : l >= 0},
        stride \in 0..2, first \in 0..2 }

InitUpscale ==
    /\ argi = 0
    /\ pc = "call"
    /\ file = <<>>
    /\ rest = <<>>
    /\ n = 0
    /\ out = <<>>
    /\ diag = <<>>
    /\ path = "none"
    /\ fault = "none"
    /\ \E width \in 0..MaxW, height \in 0..MaxH :
         \E data \in PixelBuffers(width * height) :
           call = [data |-> data, a |-> width, b |-> height]
    /\ ret = NoRet

WriteRgbaToPng ==
    /\ pc = "call"
    /\ ret' = write_rgba_to_png(call.data, call.a, call.b)
    /\ pc' = "returned"
    /\ UNCHANGED <<argi, file, rest, n, out, diag, path, fault, call>>

NextUpscale == WriteRgbaToPng

SpecUpscale == InitUpscale /\ [][NextUpscale]_vars

----------------------------------------------------------------------------
(* Properties                                                              *)

\* extract_* has returned to main for the current argument.
Returned == pc \in {"main", "exit"} /\ path # "none"

\* C1: main calls extract_fullscreen_ega if and only if the file is exactly
\* 32000 bytes long, whatever the bytes are, and extract_sprites_ega for
\* every other length.
C1_DispatchBySize ==
    path # "none" =>
        /\ path \in {"fullscreen", "sprites"}
        /\ path = "fullscreen" <=> Len(file) = 32000
        /\ path = "sprites" <=> Len(file) # 32000

\* A 32000-byte file that is neither all zeros nor all ones took the
\* full-screen path.
C1_Witness == path = "fullscreen" /\ file = FullMixed /\ Len(out) = 1

\* The first four bytes of f as a big-endian number.
SizeField(f) == f[1] * 16777216 + f[2] * 65536 + f[3] * 256 + f[4]

\* C2: on the sprite-sheet path a file shorter than 4 bytes is rejected as
\* too small, and otherwise a file whose big-endian size field plus 4 is not
\* its length is rejected as size incorrect; a rejected file gets that one
\* diagnostic and no raster, extract_sprites_ega returns Ok and main takes
\* the next argument if there is one.
C2_Rejected ==
    (path = "sprites" /\ (Len(file) < 4 \/ SizeField(file) + 4 # Len(file))) =>
        /\ diag = <<Extracting, IF Len(file) < 4 THEN TooSmall ELSE SizeIncorrect>>
        /\ out = <<>>
        /\ fault = "none"
        /\ pc \in {"main", "exit"}
        /\ (pc = "main" /\ argi < NumArgs) => ENABLED MainNextFile

\* The container of the spec's example is rejected for its size field with
\* an argument still to come.
C2_Witness ==
    /\ path = "sprites"
    /\ file = <<0, 0, 0, 5, 1, 2, 3>>
    /\ diag = <<Extracting, SizeIncorrect>>
    /\ pc = "main"
    /\ argi < NumArgs

\* Bit number k of byte b, bit 0 the least significant.
BitNumber(b, k) == (b \div (2 ^ k)) % 2

\* The index the planar format gives pixel (x, y) of a 320-pixel-wide
\* screen: plane k contributes bit 7 - (ofs mod 8) of its byte ofs / 8.
ScreenIndex(src, x, y) ==
    LET ofs == 320 * y + x
        plane(k) == BitNumber(src[k * 8000 + (ofs \div 8) + 1], 7 - (ofs % 8))
    IN  8 * plane(3) + 4 * plane(2) + 2 * plane(1) + plane(0)

\* C5: the raster decoded from a 32000-byte file is 320 by 200 and its pixel
\* (x, y) is the palette colour of index p3<<3 | p2<<2 | p1<<1 | p0, pk being
\* bit 7 - (ofs mod 8) of the byte at k*8000 + ofs/8 with ofs = 320*y + x; an
\* all-zero file gives palette entry 0 everywhere and an all-0xFF file
\* palette entry 15 everywhere.
C5_PlanarPixels ==
    (Returned /\ Len(file) = 32000) =>
        /\ Len(out) = 1
        /\ out[1].width = 320
        /\ out[1].height = 200
        /\ Len(out[1].data) = 320 * 200
        /\ \A y \in 0..199 : \A x \in 0..319 :
             out[1].data[320 * y + x + 1] = EGA_PAL[ScreenIndex(file, x, y) + 1]
        /\ (\A i \in 1..32000 : file[i] = 0) =>
             \A p \in 1..64000 : out[1].data[p] = <<0, 0, 0, 0>>
        /\ (\A i \in 1..32000 : file[i] = 255) =>
             \A p \in 1..64000 : out[1].data[p] = <<255, 255, 255, 255>>

\* A decoded screen with a pixel that is neither palette entry 0 nor 15 and
\* two neighbours of different colours.
C5_Witness ==
    /\ Returned
    /\ Len(file) = 32000
    /\ Len(out) = 1
    /\ \E p \in 1..16 : out[1].data[p] \notin {EGA_PAL[1], EGA_PAL[16]}
    /\ \E p \in 1..16 : out[1].data[p] # out[1].data[p + 1]

\* The index of pixel p (from 1) of the raster a step has just handed to
\* write_rgba_to_png, computed from the bytes the step started with.
EmittedIndex(p) ==
    IF path' = "fullscreen"
    THEN ScreenIndex(file, (p - 1) % 320, (p - 1) \div 320)
    ELSE LET span == 2 * rest[3]
             x == (p - 1) % (2 * span)
             y == (p - 1) \div (2 * span)
             b == rest[4 + y * span + (x \div 2) + 1]
         IN  IF x % 2 = 0 THEN b \div 16 ELSE b % 16

\* C8: of the 16 palette entries only entry 0 has alpha 0 and entries 1..15
\* have alpha 0xff; so a pixel either decoder emits is fully transparent
\* exactly when its 4-bit index is 0, and fully opaque otherwise.
C8_AlphaOnlyIndex0 ==
    [][ /\ Len(EGA_PAL) = 16
        /\ \A i \in 0..15 : EGA_PAL[i + 1][4] = (IF i = 0 THEN 0 ELSE 255)
        /\ Len(out') > Len(out) =>
             LET e == out'[Len(out')]
             IN  \A p \in 1..Len(e.data) :
                   /\ e.data[p][4] \in {0, 255}
                   /\ e.data[p][4] = 0 <=> EmittedIndex(p) = 0 ]_vars

\* A sprite frame with a transparent pixel, an opaque black one (index 8)
\* and others.
C8_Witness ==
    /\ path = "sprites"
    /\ out # <<>>
    /\ \E p \in 1..Len(out[1].data) : out[1].data[p] = <<0, 0, 0, 0>>
    /\ \E p \in 1..Len(out[1].data) : out[1].data[p] = <<0, 0, 0, 255>>

\* Every raster handed to write_rgba_to_png has pixels.  (What the encoder,
\* which is not part of src, makes of an empty raster is left open: the
\* violations below do not pass through one.)
HasPixels(rasters) == \A i \in 1..Len(rasters) : rasters[i].width > 0 /\ rasters[i].height > 0

\* C10 (as claimed): no file that passes the size test or the sprite-sheet
\* validation makes a read leave its buffer, so the run never panics.
C10_NoPanic == HasPixels(out) => (pc # "panic" /\ fault = "none")

\* C4 (as claimed): the loop over the records terminates.  What a pass does
\* is decided by the cursor alone, so the loop reaches the end of the buffer
\* exactly if every pass that leaves it running has moved the cursor: a pass
\* that leaves the cursor in place is repeated without end.
C4_LoopAdvances ==
    [][(pc = "loop" /\ pc' = "loop" /\ HasPixels(out')) => Len(rest') < Len(rest)]_vars

\* C9 (as claimed): a pass that emits a frame then moves the cursor by the
\* record_size of the header, whatever the record's real length, prints
\* nothing, raises no error and leaves the parse running at the old cursor +
\* record_size.
C9_AdvanceByRecordSize ==
    [][(pc = "loop" /\ Len(out') > Len(out) /\ HasPixels(out')) =>
          LET record_size == rest[1] + 256 * rest[2]
          IN  /\ pc' = "loop"
              /\ fault' = "none"
              /\ diag' = diag
              /\ Len(rest') = Len(rest) - record_size
              /\ \A i \in 1..Len(rest') : rest'[i] = rest[record_size + i] ]_vars

\* The offset behind the record at offset o of payload s.  A whole record
\* holds its header and its byte_width * height body bytes within its
\* record_size, which does not pass the end; past anything else the offset
\* is -1.  The end of the payload stays the end.
NextHeader(s, o) ==
    IF o < 0 \/ o = Len(s) THEN o
    ELSE IF Len(s) - o < 4 THEN -1
    ELSE LET record_size == s[o + 1] + 256 * s[o + 2]
         IN  IF record_size >= 4 + (2 * s[o + 3]) * s[o + 4] /\ o + record_size <= Len(s)
             THEN o + record_size
             ELSE -1

\* NextHeader as a table over the offsets of payload s, and two tables
\* one after the other.
Step(s) == [o \in (-1)..Len(s) |-> NextHeader(s, o)]
Twice(f, g) == [o \in DOMAIN f |-> g[f[o]]]

\* The table of the offsets reached behind k records.
RECURSIVE Hops(_, _)
Hops(s, k) ==
    IF k = 0 THEN [o \in (-1)..Len(s) |-> o]
    ELSE IF k = 1 THEN Step(s)
    ELSE IF k % 2 = 0 THEN Twice(Hops(s, k \div 2), Hops(s, k \div 2))
    ELSE Twice(Hops(s, k - 1), Step(s))

\* The offset reached from o behind k records.
HeaderOfs(s, o, k) == Hops(s, k)[o]

\* Payload s is a run of whole records up to its end.
WellFormed(s) == HeaderOfs(s, 0, (Len(s) \div 4) + 1) = Len(s)

\* Index k in two digits, and zero-padded to at least two digits.
TwoDigits(k) == <<(k \div 10) % 10, k % 10>>
PaddedIndex(k) == IF k < 100 THEN TwoDigits(k) ELSE <<k \div 100>> \o TwoDigits(k)

\* Raster k + 1 answers record k of payload s: the record exists, and the
\* raster has its number, counted from 0 in this file, and its dimensions.
Answers(s, k, two_digits) ==
    /\ HeaderOfs(s, 0, k) # Len(s)
    /\ out[k + 1].filename.stem = argi
    /\ out[k + 1].filename.index = (IF two_digits THEN TwoDigits(k) ELSE PaddedIndex(k))
    /\ out[k + 1].width = 2 * (2 * s[HeaderOfs(s, 0, k) + 3])
    /\ out[k + 1].height = s[HeaderOfs(s, 0, k) + 4]

\* One raster per record of a valid, well-formed container, in record
\* order; on return the records are used up.
RastersFollowRecords(two_digits) ==
    (/\ path = "sprites"
     /\ Len(file) >= 4
     /\ SizeField(file) + 4 = Len(file)
     /\ WellFormed(SubSeq(file, 5, Len(file)))) =>
        /\ pc # "panic"
        /\ diag = <<Extracting>>
        /\ out # <<>> => Answers(SubSeq(file, 5, Len(file)), Len(out) - 1, two_digits)
        /\ Returned =>
             /\ HeaderOfs(SubSeq(file, 5, Len(file)), 0, Len(out)) = Len(file) - 4
             /\ \A k \in 0..(Len(out) - 1) :
                  Answers(SubSeq(file, 5, Len(file)), k, two_digits)

\* C3 (as claimed): a valid container of N well-formed records yields exactly
\* N rasters, in record order; the k-th, counted from 0 in each file, is named
\* with the 2-digit index k and is 2*(2*half_byte_width) by height.
C3_TwoDigitNames == RastersFollowRecords(TRUE)

\* C3 (amended): the same, the index k being zero-padded to at least two
\* digits: two digits up to 99, all its digits from 100 on.
C3_OneRasterPerRecord == RastersFollowRecords(FALSE)

\* The second argument was a container of two records of different heights
\* and has yielded its two rasters.
C3_Witness ==
    /\ Returned
    /\ argi = 2
    /\ path = "sprites"
    /\ file = Sheet(Record(6, 1, 1, <<165, 15>>) \o Record(8, 1, 2, <<60, 128, 9, 240>>))
    /\ Len(out) = 2
    /\ out[2].filename.index = <<0, 1>>
    /\ out[1].height = 1 /\ out[2].height = 2

\* C6: given at least span * height bytes, decode_interleaved_ega_to_rgba
\* returns a (2*span) by height buffer whose pixel (x, y) is the palette colour
\* of the high nibble of byte y*span + x/2 for even x and of its low nibble
\* for odd x; the byte 0xA5 with span 1 and height 1 gives entry 0xA, then 0x5.
C6_InterleavedPixels ==
    (pc = "returned" /\ Len(call.data) >= call.a * call.b) =>
        LET span == call.a
            height == call.b
        IN  /\ ret.ok
            /\ Len(ret.frame) = (2 * span) * height
            /\ \A y \in 0..(height - 1) : \A x \in 0..(2 * span - 1) :
                 LET b == call.data[y * span + (x \div 2) + 1]
                     nibble == IF x % 2 = 0 THEN b \div 16 ELSE b % 16
                 IN  ret.frame[y * (2 * span) + x + 1] = EGA_PAL[nibble + 1]
            /\ (span = 1 /\ height = 1 /\ call.data[1] = 165) =>
                 ret.frame = <<EGA_PAL[10 + 1], EGA_PAL[5 + 1]>>

\* A 4 x 2 frame decoded from bytes that are not all equal.
C6_Witness ==
    /\ pc = "returned"
    /\ call.a = 2 /\ call.b = 2
    /\ call.data = <<165, 15, 15, 165>>
    /\ ret.ok
    /\ Len(ret.frame) = 8

\* C7: for a width x height pixel buffer write_rgba_to_png builds a
\* (5*width) by (6*height) raster, writes every pixel of it, and pixel
\* (sx, sy) equals source pixel (sx div 5, sy div 6) in all four channels; a
\* 1 x 1 source gives 30 pixels all equal to it.
C7_Replicated ==
    (pc = "returned" /\ Len(call.data) = call.a * call.b) =>
        LET width == call.a
            height == call.b
            targets == ScaleTargets(width, height)
        IN  /\ ret.ok
            /\ ret.width = 5 * width
            /\ ret.height = 6 * height
            /\ Len(ret.data) = (5 * width) * (6 * height)
            /\ {targets[k] : k \in 1..Len(targets)} = 0..((5 * width) * (6 * height) - 1)
            /\ \A sy \in 0..(6 * height - 1) : \A sx \in 0..(5 * width - 1) :
                 \A c \in 1..4 :
                   ret.data[sy * (5 * width) + sx + 1][c] =
                      call.data[(sy \div 6) * width + (sx \div 5) + 1][c]
            /\ (width = 1 /\ height = 1) =>
                 ret.data = [q \in 1..30 |-> call.data[1]]

\* A 2 x 2 buffer with three different pixels has been scaled.
C7_Witness ==
    /\ pc = "returned"
    /\ call.a = 2 /\ call.b = 2
    /\ call.data = <<SamplePixels[1], SamplePixels[2], SamplePixels[3], SamplePixels[1]>>
    /\ ret.ok
    /\ Len(ret.data) = 120

====
